---------------------------- MODULE Spec2Model ----------------------------
(***************************************************************************)
(* sqlx-derive-with: the FromRow derive macro (src/src/lib.rs).            *)
(*                                                                         *)
(* The model has two halves.  expand_derive turns a derive input (the      *)
(* container attributes, the struct's shape and its fields with their      *)
(* attributes) into either a compile error or an impl of ::sqlx::FromRow   *)
(* whose from_row holds one expression per field.  from_row is then run    *)
(* against a row, one field expression after the other, up to its return.                    *)
(*                                                                         *)
(* Identifiers and column names are strings; heck's case conversions are   *)
(* computed character by character on the sequence of an identifier's      *)
(* characters.                                                             *)
(***************************************************************************)
EXTENDS Integers, Sequences, FiniteSets, TLC

VARIABLES
    input,      \* the syn::DeriveInput handed to the macro, or None
    output,     \* what the macro expanded to: None, a compile error or an impl
    row,        \* the row from_row was called on, or None
    vals,       \* the values of the field expressions from_row evaluated
    calls,      \* the calls from_row made, in order
    result,     \* what from_row returned: None, Ok(record) or Err(error)
    conv        \* a case conversion applied once and twice to an identifier, or None

vars == <<input, output, row, vals, calls, result, conv>>

None == [tag |-> "None"]

----------------------------------------------------------------------------
(* Bounds *)

\* the longest struct the macro is run on
MaxFields == 2
\* the longest identifier the case conversions are run on
MaxIdLen == 3

----------------------------------------------------------------------------
(* Characters and strings *)

LowerChars == <<"a","b","c","d","e","f","g","h","i","j","k","l","m",
                "n","o","p","q","r","s","t","u","v","w","x","y","z">>
UpperChars == <<"A","B","C","D","E","F","G","H","I","J","K","L","M",
                "N","O","P","Q","R","S","T","U","V","W","X","Y","Z">>
DigitChars == <<"0","1","2","3","4","5","6","7","8","9">>

InSeq(c, s) == \E i \in DOMAIN s : s[i] = c
IndexOf(c, s) == CHOOSE i \in DOMAIN s : s[i] = c

\* char::is_lowercase, char::is_uppercase, char::is_alphanumeric (ASCII)
IsLower(c) == InSeq(c, LowerChars)
IsUpper(c) == InSeq(c, UpperChars)
IsAlphanumeric(c) == IsLower(c) \/ IsUpper(c) \/ InSeq(c, DigitChars)

CharToLower(c) == IF IsUpper(c) THEN LowerChars[IndexOf(c, UpperChars)] ELSE c
CharToUpper(c) == IF IsLower(c) THEN UpperChars[IndexOf(c, LowerChars)] ELSE c

\* str::to_lowercase, str::to_uppercase
to_lowercase(s) == [i \in DOMAIN s |-> CharToLower(s[i])]
to_uppercase(s) == [i \in DOMAIN s |-> CharToUpper(s[i])]

\* Ident::to_string: the characters as one string
RECURSIVE Str(_)
Str(s) == IF s = <<>> THEN "" ELSE s[1] \o Str(Tail(s))

----------------------------------------------------------------------------
(* heck: the word splitting shared by every to_*_case, and the conversions *)

\* s.split(|c| !c.is_alphanumeric()): the maximal runs between separators,
\* the empty ones included
RECURSIVE SplitNonAlnum(_, _, _)
SplitNonAlnum(s, cur, acc) ==
    IF s = <<>> THEN Append(acc, cur)
    ELSE IF IsAlphanumeric(Head(s))
         THEN SplitNonAlnum(Tail(s), Append(cur, Head(s)), acc)
         ELSE SplitNonAlnum(Tail(s), <<>>, Append(acc, cur))

\* the scan of one run: a word ends after a lowercase character followed by
\* an uppercase one, and before the last uppercase character of an
\* uppercase run that a lowercase character follows
RECURSIVE ScanWord(_, _, _, _, _)
ScanWord(w, i, init, mode, acc) ==
    IF i > Len(w) THEN acc
    ELSE IF i = Len(w) THEN Append(acc, SubSeq(w, init, Len(w)))
    ELSE LET c == w[i]
             next == w[i + 1]
             next_mode == IF IsLower(c) THEN "Lowercase"
                          ELSE IF IsUpper(c) THEN "Uppercase"
                          ELSE mode
         IN  IF next_mode = "Lowercase" /\ IsUpper(next)
             THEN ScanWord(w, i + 1, i + 1, "Boundary",
                           Append(acc, SubSeq(w, init, i)))
             ELSE IF mode = "Uppercase" /\ IsUpper(c) /\ IsLower(next)
             THEN ScanWord(w, i + 1, i, "Boundary",
                           Append(acc, SubSeq(w, init, i - 1)))
             ELSE ScanWord(w, i + 1, init, next_mode, acc)

RECURSIVE ScanRuns(_, _)
ScanRuns(runs, acc) ==
    IF runs = <<>> THEN acc
    ELSE ScanRuns(Tail(runs), ScanWord(Head(runs), 1, 1, "Boundary", acc))

\* the words heck's transform hands to with_word, in order
Words(s) == ScanRuns(SplitNonAlnum(s, <<>>, <<>>), <<>>)

\* heck's capitalize: first character upper, the rest lower
capitalize(w) ==
    IF w = <<>> THEN <<>>
    ELSE <<CharToUpper(w[1])>> \o to_lowercase(Tail(w))

\* the words joined by sep, each after f; the first word after first
RECURSIVE JoinWords(_, _, _)
JoinWords(ws, sep, kind) ==
    IF ws = <<>> THEN <<>>
    ELSE LET w == IF kind = "lower" THEN to_lowercase(Head(ws))
                  ELSE IF kind = "upper" THEN to_uppercase(Head(ws))
                  ELSE capitalize(Head(ws))
         IN  IF Tail(ws) = <<>> THEN w
             ELSE w \o sep \o JoinWords(Tail(ws), sep, kind)

to_snake_case(s) == JoinWords(Words(s), <<"_">>, "lower")
to_kebab_case(s) == JoinWords(Words(s), <<"-">>, "lower")
to_shouty_snake_case(s) == JoinWords(Words(s), <<"_">>, "upper")
to_upper_camel_case(s) == JoinWords(Words(s), <<>>, "capitalize")
to_lower_camel_case(s) ==
    LET ws == Words(s)
    IN  IF ws = <<>> THEN <<>>
        ELSE to_lowercase(Head(ws)) \o JoinWords(Tail(ws), <<>>, "capitalize")

----------------------------------------------------------------------------
(* RenameAll: the tokens darling's FromMeta accepts, and the conversion     *)
(* expand_derive applies for each                                          *)

RenameAllTokens ==
    {"snake_case", "lowercase", "UPPERCASE", "camelCase", "PascalCase",
     "SCREAMING_SNAKE_CASE", "kebab-case"}

\* RenameAllFromMeta with the kebab-case variant's rename mistyped
RenameAllFromMetaNoKebab(token) ==
    IF token \in RenameAllTokens \ {"kebab-case"}
    THEN [tag |-> "Ok", val |-> token]
    ELSE [tag |-> "Err", err |-> "Unknown literal value"]

\* RenameAll::from_string: the variant of a token, or an error
RenameAllFromMeta(token) ==
    IF token \in RenameAllTokens
    THEN [tag |-> "Ok", val |-> token]
    ELSE [tag |-> "Err", err |-> "Unknown literal value"]

\* ApplyRenameAll with the arms of Camel and Pascal exchanged
ApplyRenameAllCamelPascalSwapped(rename_all, id) ==
    CASE rename_all = "snake_case" -> to_snake_case(id)
      [] rename_all = "lowercase" -> to_lowercase(id)
      [] rename_all = "UPPERCASE" -> to_uppercase(id)
      [] rename_all = "camelCase" -> to_upper_camel_case(id)
      [] rename_all = "PascalCase" -> to_lower_camel_case(id)
      [] rename_all = "SCREAMING_SNAKE_CASE" -> to_shouty_snake_case(id)
      [] rename_all = "kebab-case" -> to_kebab_case(id)

\* ApplyRenameAll with the arm of Snake calling to_upper_camel_case
ApplyRenameAllSnakeAsPascal(rename_all, id) ==
    CASE rename_all = "snake_case" -> to_upper_camel_case(id)
      [] rename_all = "lowercase" -> to_lowercase(id)
      [] rename_all = "UPPERCASE" -> to_uppercase(id)
      [] rename_all = "camelCase" -> to_lower_camel_case(id)
      [] rename_all = "PascalCase" -> to_upper_camel_case(id)
      [] rename_all = "SCREAMING_SNAKE_CASE" -> to_shouty_snake_case(id)
      [] rename_all = "kebab-case" -> to_kebab_case(id)

\* the match of expand_derive over the variants
ApplyRenameAll(rename_all, id) ==
    CASE rename_all = "snake_case" -> to_snake_case(id)
      [] rename_all = "lowercase" -> to_lowercase(id)
      [] rename_all = "UPPERCASE" -> to_uppercase(id)
      [] rename_all = "camelCase" -> to_lower_camel_case(id)
      [] rename_all = "PascalCase" -> to_upper_camel_case(id)
      [] rename_all = "SCREAMING_SNAKE_CASE" -> to_shouty_snake_case(id)
      [] rename_all = "kebab-case" -> to_kebab_case(id)


----------------------------------------------------------------------------
(* The derive input *)

Some(v) == [tag |-> "Some", val |-> v]
Ok(v) == [tag |-> "Ok", val |-> v]
Err(e) == [tag |-> "Err", err |-> e]

foo_bar == <<"f","o","o","_","b","a","r">>
fooBar == <<"f","o","o","B","a","r">>
FooBar == <<"F","o","o","B","a","r">>

\* the characters of a field identifier
Chars(id) ==
    CASE id = "foo_bar" -> foo_bar
      [] id = "fooBar" -> fooBar
      [] id = "FooBar" -> FooBar

\* the fields a struct is declared from: an identifier and a type
FieldPool ==
    { [ident |-> "foo_bar", ty |-> "i64"],
      [ident |-> "fooBar", ty |-> "String"],
      [ident |-> "FooBar", ty |-> "i64"] }

\* struct Field: ident, rename, default, decode (and the field's type)
FieldDecls ==
    { [ident |-> Some(p.ident), ty |-> p.ty, rename |-> r, default |-> d, decode |-> f] :
        p \in FieldPool, r \in {None, Some("z")}, d \in BOOLEAN,
        f \in {None, Some("split_x")} }

\* the fields of a named struct: distinct identifiers, in declaration order
NamedFieldLists ==
    UNION { { fs \in [1..n -> FieldDecls] :
                \A i, j \in 1..n : i # j => fs[i].ident # fs[j].ident } :
            n \in 0..MaxFields }

\* the fields of a tuple struct carry no identifier and no attribute
TupleField(ty) ==
    [ident |-> None, ty |-> ty, rename |-> None, default |-> FALSE, decode |-> None]
TupleFieldLists == { <<TupleField("i64")>>, <<TupleField("i64"), TupleField("String")>> }

\* the #[sqlx_with(...)] keys of the container: every db = "..." given, every
\* rename_all = "..." given, and the keys that are neither
ContainerAttrs ==
    { [db |-> d, rename_all |-> r, other |-> o] :
        d \in { <<>>, <<"sqlx::Sqlite">>, <<"sqlx::Sqlite", "sqlx::Postgres">> },
        r \in { <<>>, <<"snake_case", "camelCase">> }
              \cup { <<t>> : t \in RenameAllTokens \cup {"identity", "Title Case"} },
        o \in { {}, {"table"} } }

DeriveInputs ==
    { [shape |-> "struct_named", attrs |-> a, fields |-> fs] :
        a \in ContainerAttrs, fs \in NamedFieldLists }
    \cup { [shape |-> "struct_tuple", attrs |-> a, fields |-> fs] :
        a \in ContainerAttrs, fs \in TupleFieldLists }
    \cup { [shape |-> sh, attrs |-> a, fields |-> <<>>] :
        sh \in {"struct_unit", "enum"}, a \in ContainerAttrs }

----------------------------------------------------------------------------
(* DeriveInput::from_derive_input: darling's checks of the container.      *)
(* Every violated check reports an error; the parse succeeds when there    *)
(* is none.                                                                *)

ShapeErrors(inp) ==
    IF inp.shape = "struct_named" THEN {} ELSE {"Unsupported shape"}

\* DbErrors without the check for a repeated db
DbErrorsNoDuplicate(attrs) ==
    IF Len(attrs.db) = 0 THEN {"Missing field db"} ELSE {}

DbErrors(attrs) ==
    IF Len(attrs.db) = 0 THEN {"Missing field db"}
    ELSE IF Len(attrs.db) > 1 THEN {"Duplicate field db"}
    ELSE {}

RenameAllErrors(attrs) ==
    IF Len(attrs.rename_all) = 0 THEN {}
    ELSE IF Len(attrs.rename_all) > 1 THEN {"Duplicate field rename_all"}
    ELSE IF RenameAllFromMeta(attrs.rename_all[1]).tag = "Err"
    THEN {"Unknown literal value"}
    ELSE {}

UnknownFieldErrors(attrs) ==
    IF attrs.other = {} THEN {} ELSE {"Unknown field"}

FromDeriveInputErrors(inp) ==
    ShapeErrors(inp) \cup DbErrors(inp.attrs) \cup RenameAllErrors(inp.attrs)
        \cup UnknownFieldErrors(inp.attrs)

\* rename_all: Option<RenameAll> of a parsed input
ParsedRenameAll(inp) ==
    IF Len(inp.attrs.rename_all) = 0 THEN None
    ELSE Some(RenameAllFromMeta(inp.attrs.rename_all[1]).val)

----------------------------------------------------------------------------
(* expand_derive: the loop over the fields *)

\* ColumnName with rename_all tried before rename
ColumnNameRenameAllFirst(field, rename_all) ==
    IF rename_all.tag = "Some"
    THEN Str(ApplyRenameAll(rename_all.val, Chars(field.ident.val)))
    ELSE IF field.rename.tag = "Some" THEN field.rename.val
    ELSE field.ident.val

\* let column_name = if let Some(rename) ... else if let Some(rename_all) ... else
ColumnName(field, rename_all) ==
    IF field.rename.tag = "Some" THEN field.rename.val
    ELSE IF rename_all.tag = "Some"
    THEN Str(ApplyRenameAll(rename_all.val, Chars(field.ident.val)))
    ELSE field.ident.val

\* ColumnGetExpr that ignores decode
ColumnGetExprAlwaysTryGet(field, column_name) ==
    [kind |-> "try_get", path |-> "row.try_get", index |-> column_name]

\* let column_get_expr = if let Some(decode) ... else row.try_get(#column_name)
ColumnGetExpr(field, column_name) ==
    IF field.decode.tag = "Some"
    THEN [kind |-> "decode", path |-> field.decode.val, index |-> column_name]
    ELSE [kind |-> "try_get", path |-> "row.try_get", index |-> column_name]

\* #id: #column_val_expr, the expression wrapped in the match when default is set
FieldExpr(field, rename_all) ==
    [id |-> field.ident.val,
     ty |-> field.ty,
     get |-> ColumnGetExpr(field, ColumnName(field, rename_all)),
     default |-> field.default]

\* StructExpr with the fields pushed in reverse
StructExprReversed(inp) ==
    [i \in DOMAIN inp.fields |->
        FieldExpr(inp.fields[Len(inp.fields) + 1 - i], ParsedRenameAll(inp))]

StructExpr(inp) ==
    [i \in DOMAIN inp.fields |-> FieldExpr(inp.fields[i], ParsedRenameAll(inp))]

expand_derive(inp) ==
    IF FromDeriveInputErrors(inp) # {}
    THEN [tag |-> "compile_error", errors |-> FromDeriveInputErrors(inp)]
    ELSE [tag |-> "impl", db |-> inp.attrs.db[1], fields |-> StructExpr(inp)]

\* derive_sqlx_with: the macro runs once on a derive input
Derive ==
    /\ input = None
    /\ \E inp \in DeriveInputs :
          /\ input' = inp
          /\ output' = expand_derive(inp)
    /\ UNCHANGED <<row, vals, calls, result, conv>>

----------------------------------------------------------------------------
(* The row and the calls of the generated from_row *)

\* the column names the field expressions look up, and the other names a
\* row for this impl may hold: the field identifiers
LookedUp(out) == { out.fields[i].get.index : i \in DOMAIN out.fields }
ColumnNames(out) == LookedUp(out) \cup { out.fields[i].id : i \in DOMAIN out.fields }

\* a row: its columns and the storage type of each cell; the cells no field
\* expression looks up are INTEGER, as in the tests
Rows(out) ==
    UNION { { r \in [cols -> {"INTEGER", "TEXT"}] :
                \A c \in cols \ LookedUp(out) : r[c] = "INTEGER" } :
            cols \in SUBSET ColumnNames(out) }

Compatible(ty, cell) ==
    \/ ty = "i64" /\ cell = "INTEGER"
    \/ ty = "String" /\ cell = "TEXT"

\* sqlx::Row::try_get::<T>(index)
try_get(r, index, ty) ==
    IF index \notin DOMAIN r THEN Err([kind |-> "ColumnNotFound", index |-> index])
    ELSE IF ~Compatible(ty, r[index]) THEN Err([kind |-> "ColumnDecode", index |-> index])
    ELSE Ok([kind |-> "cell", index |-> index])

\* the decode function of the tests: let n: i64 = row.try_get(index)?; Ok((n, n + 2))
split_x(index, r) ==
    IF try_get(r, index, "i64").tag = "Err" THEN try_get(r, index, "i64")
    ELSE Ok([kind |-> "split_x", index |-> index])

\* the value of #column_get_expr
EvalGetExpr(get, ty, r) ==
    IF get.kind = "decode" THEN split_x(get.index, r)
    ELSE try_get(r, get.index, ty)

\* DefaultOnColumnNotFound with a pattern that matches every error
DefaultOnAnyError(res, ty) ==
    IF res.tag = "Err" THEN Ok([kind |-> "default", ty |-> ty]) ELSE res

\* match #column_get_expr { Err(ColumnNotFound(_)) => Ok(Default::default()), val => val }
DefaultOnColumnNotFound(res, ty) ==
    IF res.tag = "Err" /\ res.err.kind = "ColumnNotFound"
    THEN Ok([kind |-> "default", ty |-> ty])
    ELSE res

\* EvalValExpr of an expression generated without the match
EvalValExprNoDefault(fe, r) == EvalGetExpr(fe.get, fe.ty, r)

\* EvalValExpr of an expression whose match wraps only row.try_get
EvalValExprDefaultOnlyTryGet(fe, r) ==
    IF fe.default /\ fe.get.kind = "try_get"
    THEN DefaultOnColumnNotFound(EvalGetExpr(fe.get, fe.ty, r), fe.ty)
    ELSE EvalGetExpr(fe.get, fe.ty, r)

\* the value of #column_val_expr before its ?
EvalValExpr(fe, r) ==
    IF fe.default
    THEN DefaultOnColumnNotFound(EvalGetExpr(fe.get, fe.ty, r), fe.ty)
    ELSE EvalGetExpr(fe.get, fe.ty, r)

\* the body of from_row from field i on: each field expression in turn, its ?
\* returning the error, and Ok(Self { ... }) once every one has a value
RECURSIVE EvalFields(_, _, _, _, _)
EvalFields(fields, r, i, cs, vs) ==
    IF i > Len(fields)
    THEN [calls |-> cs,
          vals |-> vs,
          result |-> Ok([k \in DOMAIN vs |-> [id |-> fields[k].id, val |-> vs[k]]])]
    ELSE LET fe == fields[i]
             val == EvalValExpr(fe, r)
             cs1 == Append(cs, [field |-> fe.id, kind |-> fe.get.kind,
                                path |-> fe.get.path, index |-> fe.get.index])
         IN  IF val.tag = "Err"
             THEN [calls |-> cs1, vals |-> vs, result |-> val]
             ELSE EvalFields(fields, r, i + 1, cs1, Append(vs, val.val))

\* from_row is called on a row and returns
FromRow ==
    /\ output.tag = "impl"
    /\ row = None
    /\ \E r \in Rows(output) :
          \E run \in {EvalFields(output.fields, r, 1, <<>>, <<>>)} :
              /\ row' = r
              /\ calls' = run.calls
              /\ vals' = run.vals
              /\ result' = run.result
    /\ UNCHANGED <<input, output, conv>>

----------------------------------------------------------------------------
(* The case conversions on their own *)

IdAlphabet == {"a", "b", "A", "B", "_", "1"}

\* the identifiers of at most MaxIdLen characters, and those of the tests
Identifiers ==
    { s \in UNION { [1..n -> IdAlphabet] : n \in 1..MaxIdLen } :
        /\ s[1] # "1"
        /\ s # <<"_">> }
    \cup {foo_bar, fooBar, FooBar}

Convert ==
    /\ conv = None
    /\ \E t \in RenameAllTokens, s \in Identifiers :
          conv' = [policy |-> t, id |-> s, once |-> ApplyRenameAll(t, s), twice |-> None]
    /\ UNCHANGED <<input, output, row, vals, calls, result>>

ConvertAgain ==
    /\ conv # None
    /\ conv.twice = None
    /\ conv' = [conv EXCEPT !.twice = Some(ApplyRenameAll(conv.policy, conv.once))]
    /\ UNCHANGED <<input, output, row, vals, calls, result>>

----------------------------------------------------------------------------
(* Specifications *)

Init ==
    /\ input = None
    /\ output = None
    /\ row = None
    /\ vals = <<>>
    /\ calls = <<>>
    /\ result = None
    /\ conv = None

Next ==
    \/ Derive
    \/ FromRow

Spec == Init /\ [][Next]_vars

NextConv ==
    \/ Convert
    \/ ConvertAgain

SpecConv == Init /\ [][NextConv]_vars

----------------------------------------------------------------------------
(* What the properties below read off a state *)

Generated == output.tag = "impl"
Running == Generated /\ row # None

\* each policy's conversion of the identifiers of the pool
PoolIdents == { p.ident : p \in FieldPool }
Converted ==
    [t \in RenameAllTokens |-> [id \in PoolIdents |-> Str(ApplyRenameAll(t, Chars(id)))]]

\* the declaration of field i and its identifier
Decl(i) == input.fields[i]
IdOf(i) == Decl(i).ident.val

\* field i's expression has been evaluated
Evaluated(i) == i <= Len(calls)

\* the column name the precedence rename / rename_all / identifier gives field i
ResolvedName(i) ==
    IF Decl(i).rename # None THEN Decl(i).rename.val
    ELSE IF input.attrs.rename_all # <<>>
    THEN Converted[input.attrs.rename_all[1]][Decl(i).ident.val]
    ELSE IdOf(i)

\* the type field i's extraction reads the cell as
ReadTy(i) == IF Decl(i).decode # None THEN "i64" ELSE Decl(i).ty

ColumnAbsent(i) == ResolvedName(i) \notin DOMAIN row
ColumnReadable(i) ==
    ResolvedName(i) \in DOMAIN row /\ Compatible(ReadTy(i), row[ResolvedName(i)])
ColumnUnreadable(i) ==
    ResolvedName(i) \in DOMAIN row /\ ~Compatible(ReadTy(i), row[ResolvedName(i)])

DefaultValue(i) == [kind |-> "default", ty |-> Decl(i).ty]

----------------------------------------------------------------------------
(* C1 *)

\* C1: every field resolves to one column name by strict precedence: an
\* explicit rename verbatim (whatever rename_all says), else rename_all's
\* conversion of the identifier, else the identifier unchanged.
C1_ColumnNamePrecedence ==
    Generated =>
        /\ DOMAIN output.fields = DOMAIN input.fields
        /\ \A i \in DOMAIN input.fields :
            LET name == output.fields[i].get.index
                ra == input.attrs.rename_all
            IN  /\ Decl(i).rename # None => name = Decl(i).rename.val
                /\ Decl(i).rename = None /\ ra # <<>> =>
                       name = Converted[ra[1]][Decl(i).ident.val]
                /\ Decl(i).rename = None /\ ra = <<>> => name = IdOf(i)

\* a field renamed to "z" under kebab-case resolves to "z", not "foo-bar"
C1_Witness ==
    /\ Generated
    /\ input.attrs.rename_all = <<"kebab-case">>
    /\ Len(input.fields) >= 1
    /\ Decl(1).ident.val = "foo_bar"
    /\ Decl(1).rename = Some("z")
    /\ output.fields[1].get.index = "z"

----------------------------------------------------------------------------
(* C2 *)

\* C2: for a field with default, only a missing column is replaced by the
\* default value; a readable column gives its decoded value and any other
\* error is what from_row returns.
C2_DefaultInterceptsOnlyColumnNotFound ==
    Running =>
        \A i \in DOMAIN input.fields :
            Decl(i).default /\ Evaluated(i) =>
                /\ ColumnAbsent(i) =>
                       /\ Len(vals) >= i
                       /\ vals[i] = DefaultValue(i)
                /\ ColumnReadable(i) =>
                       /\ Len(vals) >= i
                       /\ vals[i].kind \in {"cell", "split_x"}
                       /\ vals[i].index = ResolvedName(i)
                /\ ColumnUnreadable(i) =>
                       /\ Len(vals) = i - 1
                       /\ result = Err([kind |-> "ColumnDecode",
                                        index |-> ResolvedName(i)])

\* a default field whose column holds a cell of another type: the error is returned
C2_Witness ==
    /\ Running
    /\ Len(input.fields) >= 1
    /\ Decl(1).default
    /\ Decl(1).decode = None
    /\ ColumnUnreadable(1)
    /\ result = Err([kind |-> "ColumnDecode", index |-> ResolvedName(1)])

----------------------------------------------------------------------------
(* C3 *)

\* field j's expression yields an error that is not intercepted
Fails(j) == EvalValExpr(output.fields[j], row).tag = "Err"

\* C3: field expressions are evaluated in declaration order; from_row
\* returns the error of the first failing field, with every earlier field
\* evaluated and no later one; when none fails it returns Ok of the record
\* of every field's value.
C3_DeclarationOrderFirstErrorWins ==
    Running =>
        /\ DOMAIN output.fields = DOMAIN input.fields
        /\ \A i \in DOMAIN input.fields : output.fields[i].id = IdOf(i)
        /\ Len(calls) <= Len(input.fields)
        /\ \A k \in DOMAIN calls : calls[k].field = IdOf(k)
        /\ result.tag = "Err" =>
               /\ Len(calls) >= 1
               /\ Fails(Len(calls))
               /\ \A k \in 1..(Len(calls) - 1) : ~Fails(k)
               /\ result = EvalValExpr(output.fields[Len(calls)], row)
               /\ Len(vals) = Len(calls) - 1
        /\ result.tag = "Ok" =>
               /\ \A j \in DOMAIN input.fields : ~Fails(j)
               /\ Len(calls) = Len(input.fields)
               /\ Len(vals) = Len(input.fields)
               /\ DOMAIN result.val = DOMAIN input.fields
               /\ \A i \in DOMAIN input.fields :
                      result.val[i] = [id |-> IdOf(i), val |-> vals[i]]
        /\ result.tag \in {"Ok", "Err"}

\* the second of two fields fails after the first was evaluated
C3_Witness ==
    /\ Running
    /\ Len(input.fields) = 2
    /\ result.tag = "Err"
    /\ Len(calls) = 2
    /\ Len(vals) = 1
    /\ calls[1].field = IdOf(1)

----------------------------------------------------------------------------
(* C4 *)

\* C4: a field with a decode function is never looked up with row.try_get;
\* the function is called once, with the resolved column name, and its
\* result is the field's extraction result.
C4_DecodeOverridesLookup ==
    Running =>
        \A i \in DOMAIN input.fields :
            Decl(i).decode # None =>
                /\ \A k \in DOMAIN calls :
                       calls[k].field = IdOf(i) =>
                           /\ calls[k].kind = "decode"
                           /\ calls[k].path = Decl(i).decode.val
                           /\ calls[k].index = ResolvedName(i)
                /\ Cardinality({ k \in DOMAIN calls : calls[k].field = IdOf(i) })
                       = IF Evaluated(i) THEN 1 ELSE 0
                /\ Evaluated(i) =>
                       LET g == split_x(ResolvedName(i), row)
                       IN  /\ g.tag = "Ok" => Len(vals) >= i /\ vals[i] = g.val
                           /\ g.tag = "Err" /\ ~Decl(i).default => result = g

\* a field renamed to "z" with decode = "split_x": split_x("z", row) was called
C4_Witness ==
    /\ Running
    /\ Len(input.fields) >= 1
    /\ Decl(1).decode = Some("split_x")
    /\ Decl(1).rename = Some("z")
    /\ Len(calls) >= 1
    /\ calls[1] = [field |-> IdOf(1), kind |-> "decode", path |-> "split_x", index |-> "z"]
    /\ Len(vals) >= 1
    /\ vals[1] = [kind |-> "split_x", index |-> "z"]

----------------------------------------------------------------------------
(* C5 *)

\* C5: a default field whose resolved column is absent gets the default
\* value and decoding goes on, so from_row returns Ok with the default in
\* that field when the other fields succeed; the name looked up is the
\* resolved one, also when the row has a column named as the identifier.
C5_DefaultOnAbsentColumn ==
    Running =>
        \A i \in DOMAIN input.fields :
            Decl(i).default /\ ColumnAbsent(i) =>
                /\ Evaluated(i) =>
                       /\ calls[i].index = ResolvedName(i)
                       /\ Len(vals) >= i
                       /\ vals[i] = DefaultValue(i)
                /\ Evaluated(i) /\ result.tag = "Err" => Len(calls) > i
                /\ result.tag = "Ok" =>
                       result.val[i] = [id |-> IdOf(i), val |-> DefaultValue(i)]
                /\ (\A j \in DOMAIN input.fields \ {i} : ~Fails(j))
                       => result.tag = "Ok"

\* field foo_bar renamed to "z" with default, row with foo_bar and without z:
\* Ok with the default in foo_bar and the second field's cell
C5_Witness ==
    /\ Running
    /\ Len(input.fields) = 2
    /\ Decl(1).ident.val = "foo_bar"
    /\ Decl(1).rename = Some("z")
    /\ Decl(1).default
    /\ "foo_bar" \in DOMAIN row
    /\ "z" \notin DOMAIN row
    /\ result.tag = "Ok"
    /\ result.val[1].val = DefaultValue(1)
    /\ result.val[2].val.kind = "cell"

----------------------------------------------------------------------------
(* C6 *)

Derived == input # None

DbOnce == Len(input.attrs.db) = 1
RenameAllUnrecognized ==
    \E k \in DOMAIN input.attrs.rename_all :
        input.attrs.rename_all[k] \notin
            {"snake_case", "lowercase", "UPPERCASE", "camelCase", "PascalCase",
             "SCREAMING_SNAKE_CASE", "kebab-case"}
NamedStruct == input.shape = "struct_named"

----------------------------------------------------------------------------
(* C7 *)

\* the input has nothing wrong besides, possibly, the rename_all token
OnlyTokenInQuestion ==
    /\ Derived
    /\ NamedStruct
    /\ DbOnce
    /\ input.attrs.other = {}
    /\ Len(input.attrs.rename_all) = 1

\* C7 as stated: eight tokens are accepted, identity among them, and
\* identity resolves every field to its identifier.
C7_Original ==
    OnlyTokenInQuestion =>
        /\ output.tag = "impl" <=>
               input.attrs.rename_all[1] \in
                   {"identity", "snake_case", "lowercase", "UPPERCASE", "camelCase",
                    "PascalCase", "SCREAMING_SNAKE_CASE", "kebab-case"}
        /\ input.attrs.rename_all[1] = "identity" =>
               /\ output.tag = "impl"
               /\ \A i \in DOMAIN input.fields :
                      Decl(i).rename = None => output.fields[i].get.index = IdOf(i)

\* C7, amended: rename_all accepts exactly seven tokens: snake_case,
\* lowercase, UPPERCASE, camelCase, PascalCase, SCREAMING_SNAKE_CASE and
\* kebab-case; identity is refused like any other string.
C7_SevenTokens ==
    OnlyTokenInQuestion =>
        /\ output.tag = "impl" <=>
               input.attrs.rename_all[1] \in
                   {"snake_case", "lowercase", "UPPERCASE", "camelCase",
                    "PascalCase", "SCREAMING_SNAKE_CASE", "kebab-case"}
        /\ input.attrs.rename_all[1] = "identity" =>
               output = [tag |-> "compile_error", errors |-> {"Unknown literal value"}]

\* rename_all = "identity" on an otherwise valid struct is a compile error
C7_Witness ==
    /\ OnlyTokenInQuestion
    /\ input.attrs.rename_all = <<"identity">>
    /\ Len(input.fields) >= 1
    /\ output.tag = "compile_error"

----------------------------------------------------------------------------
(* C8 *)

\* the conversion table of the two-word identifiers
TableName(t, id) ==
    CASE t = "snake_case" -> "foo_bar"
      [] t = "SCREAMING_SNAKE_CASE" -> "FOO_BAR"
      [] t = "camelCase" -> "fooBar"
      [] t = "PascalCase" -> "FooBar"
      [] t = "kebab-case" -> "foo-bar"
      [] t = "lowercase" /\ id # "foo_bar" -> "foobar"
      [] t = "UPPERCASE" /\ id # "foo_bar" -> "FOOBAR"
      [] t = "lowercase" /\ id = "foo_bar" -> "foo_bar"
      [] t = "UPPERCASE" /\ id = "foo_bar" -> "FOO_BAR"

\* field i has no rename and the container a policy
PolicyApplies(i) ==
    /\ Decl(i).rename = None
    /\ Len(input.attrs.rename_all) = 1
    /\ Decl(i).ident.val \in {"foo_bar", "fooBar", "FooBar"}

\* C8: without a rename, each policy resolves foo_bar, fooBar and FooBar as
\* the conversion table states, and the decoder reads the column of that
\* name, also when the row has a column named as the identifier.
C8_ConversionTable ==
    Generated =>
        \A i \in DOMAIN input.fields :
            PolicyApplies(i) =>
                LET name == TableName(input.attrs.rename_all[1], Decl(i).ident.val)
                IN  /\ output.fields[i].get.index = name
                    /\ row # None /\ Evaluated(i) => calls[i].index = name
                    /\ /\ row # None
                       /\ Evaluated(i)
                       /\ Decl(i).decode = None
                       /\ name \in DOMAIN row
                       /\ Compatible(Decl(i).ty, row[name])
                       => /\ Len(vals) >= i
                          /\ vals[i] = [kind |-> "cell", index |-> name]

\* PascalCase, field foo_bar, row with foo_bar, fooBar and FooBar: the value
\* is the cell of FooBar
C8_Witness ==
    /\ Running
    /\ input.attrs.rename_all = <<"PascalCase">>
    /\ Len(input.fields) >= 1
    /\ Decl(1).ident.val = "foo_bar"
    /\ Decl(1).rename = None
    /\ {"foo_bar", "fooBar", "FooBar"} \subseteq DOMAIN row
    /\ Len(vals) >= 1
    /\ vals[1] = [kind |-> "cell", index |-> "FooBar"]

----------------------------------------------------------------------------
(* C9 *)

ConvertedTwice == conv # None /\ conv.twice # None

\* C9 as stated: every policy's conversion is idempotent.
C9_Original ==
    ConvertedTwice => conv.twice.val = conv.once

\* C9, amended: the conversions of snake_case, lowercase, UPPERCASE,
\* SCREAMING_SNAKE_CASE and kebab-case are idempotent on ASCII identifiers;
\* those of camelCase and PascalCase are not (PascalCase takes a_b to AB
\* and AB to Ab).
C9_IdempotentExceptCamel ==
    ConvertedTwice /\ conv.policy \notin {"camelCase", "PascalCase"} =>
        conv.twice.val = conv.once

\* snake_case takes fooBar to foo_bar, and foo_bar to foo_bar
C9_Witness ==
    /\ ConvertedTwice
    /\ conv.policy = "snake_case"
    /\ conv.id = fooBar
    /\ Str(conv.once) = "foo_bar"
    /\ Str(conv.twice.val) = "foo_bar"

----------------------------------------------------------------------------
(* C10 *)

\* C10: with default and decode together the function is still called with
\* the resolved column name and the row; a column-not-found error it
\* returns becomes the default value, any other error it returns is what
\* from_row returns.
C10_DefaultWrapsDecode ==
    Running =>
        \A i \in DOMAIN input.fields :
            Decl(i).default /\ Decl(i).decode # None /\ Evaluated(i) =>
                LET g == split_x(ResolvedName(i), row)
                IN  /\ calls[i] = [field |-> IdOf(i), kind |-> "decode",
                                   path |-> Decl(i).decode.val,
                                   index |-> ResolvedName(i)]
                    /\ g.tag = "Err" /\ g.err.kind = "ColumnNotFound" =>
                           /\ Len(vals) >= i
                           /\ vals[i] = DefaultValue(i)
                           /\ result.tag = "Err" => Len(calls) > i
                    /\ g.tag = "Err" /\ g.err.kind # "ColumnNotFound" =>
                           /\ result = g
                           /\ Len(calls) = i
                           /\ Len(vals) = i - 1
                    /\ g.tag = "Ok" => Len(vals) >= i /\ vals[i] = g.val

\* split_x reports the column missing and the field gets the default value
C10_Witness ==
    /\ Running
    /\ Len(input.fields) >= 1
    /\ Decl(1).default
    /\ Decl(1).decode = Some("split_x")
    /\ ColumnAbsent(1)
    /\ Len(calls) >= 1
    /\ calls[1].kind = "decode"
    /\ Len(vals) >= 1
    /\ vals[1] = DefaultValue(1)

=============================================================================
